---- MODULE Spec2Model ----
(***************************************************************************)
(* A model of additional/pf2.py: the big-endian byte codec, the section    *)
(* scan of PF2.__init__, the glyph decoder PF2.get_char and PF2.close.     *)
(*                                                                         *)
(* Bytes are integers 0..255, byte strings are sequences (b[0] of the      *)
(* source is b[1] here), stream cursors are 0-based byte offsets.          *)
(* Python integers are unbounded; a 32-bit value is kept as a pair         *)
(* (hi, lo) standing for hi * 2^16 + lo, since it may exceed 2^31, and is  *)
(* used as a byte count or a seek target through AsCount, which is exact   *)
(* below 2^16 (every file of the model is far shorter than that).          *)
(***************************************************************************)
EXTENDS Integers, Sequences, FiniteSets, TLC

VARIABLES
    file,                   \* the bytes of the file __init__ opened
    trail,                  \* offsets of its bytes that trail the last whole record of a CHIX section
    read_to_mem,            \* argument of __init__
    missing_character_code, \* self.missing_character_code
    pc,                     \* "start", "scanning", "valid", "invalid", "failed"
    is_pf2,                 \* self.is_pf2
    fstate,                 \* the stream of open(path): "unopened", "open", "closed"
    fpos,                   \* its cursor
    nreads,                 \* number of read() calls made on it
    attrs,                  \* names of the attributes set on self
    character_index,        \* self.character_index, a function code point -> [compression, offset]
    meta,                   \* font_name .. descent, a function attribute name -> value
    data_io,                \* self.data_io: "file" or "bytesio"
    data_offset,            \* self.data_offset
    buf,                    \* contents of the io.BytesIO
    bpos,                   \* its cursor
    err,                    \* exception raised by __init__, "none" if none
    dataStart,              \* offset of the first byte after the DATA tag and length
    hdrPos,                 \* offsets of the bytes read as a section tag or length
    lastChix,               \* declared length and records read of the last CHIX section
    res,                    \* outcome of the latest get_char per code point
    nlookups,               \* number of get_char calls
    closeRes,               \* outcome of the latest close(): "none", "ok" or an exception
    ncloses,                \* number of close() calls, counted up to 2
    codecIn,                \* argument of a codec function
    codecOut                \* its result

vars == <<file, trail, read_to_mem, missing_character_code, pc, is_pf2, fstate, fpos, nreads,
          attrs, character_index, meta, data_io, data_offset, buf, bpos, err,
          dataStart, hdrPos, lastChix, res, nlookups, closeRes, ncloses,
          codecIn, codecOut>>

handleVars == <<is_pf2, attrs, character_index, meta, data_io, data_offset, buf, bpos>>
inputVars == <<file, trail, read_to_mem, missing_character_code>>
codecVars == <<codecIn, codecOut>>

----------------------------------------------------------------------------
(* Bounds of the model *)

MaxSections == 2    \* sections before DATA in a generated file
MaxLookups == 2     \* get_char calls per handle

----------------------------------------------------------------------------
(* Unbounded integers as (hi, lo) pairs, hi * 2^16 + lo, 0 <= lo < 2^16 *)

W16 == 2 ^ 16

\* the pair of the number hi * 2^16 + lo, for any integers hi and lo
Wide(hi, lo) == [hi |-> hi + (lo \div W16), lo |-> lo % W16]

\* The value as a byte count or seek target: exact below 2^16, and 2^16 for
\* anything larger (past the end of every file of the model); -1 if negative.
AsCount(w) == IF w.hi < 0 THEN 0 - 1 ELSE IF w.hi > 0 THEN W16 ELSE w.lo

\* A count of 2^32 bytes or more: read(n) allocates n bytes before it reads,
\* which fails with MemoryError unless the system grants the allocation.
Huge(w) == w.hi >= W16

\* an integer 0 <= i < 2^16 (ord(char), a code point) as a pair
Key(i) == Wide(0, i)

Min(a, b) == IF a < b THEN a ELSE b
Max(a, b) == IF a > b THEN a ELSE b

----------------------------------------------------------------------------
(* Byte codec *)

\* (b[0] << 32) + (b[1] << 16) + (b[2] << 8) + b[3]: the first two terms are
\* (b[0] * 2^16 + b[1]) * 2^16, the last two are below 2^16
uint32be(b) == [hi |-> b[1] * W16 + b[2], lo |-> b[3] * 256 + b[4]]

\* u - ((u >> 31 & 1) << 32): bit 31 of u is bit 15 of its hi half, and
\* 1 << 32 is 2^16 in the hi half
int32be(b) ==
    [hi |-> uint32be(b).hi - ((uint32be(b).hi \div (2 ^ 15)) % 2) * W16,
     lo |-> uint32be(b).lo]

uint16be(b) == b[1] * 256 + b[2]

int16be(b) == uint16be(b) - ((uint16be(b) \div (2 ^ 15)) % 2) * W16

----------------------------------------------------------------------------
(* Streams: read(n) returns at most n bytes and never fails on a short read *)

\* the bytes read(n) returns at cursor p; n < 0 reads to the end
ReadAt(bytes, p, n) ==
    IF n < 0 THEN SubSeq(bytes, p + 1, Len(bytes))
    ELSE SubSeq(bytes, p + 1, Min(p + n, Len(bytes)))

\* the cursor after that read
PosAfter(bytes, p, n) == p + Len(ReadAt(bytes, p, n))

----------------------------------------------------------------------------
(* The files the model opens: the magic, up to MaxSections sections taken  *)
(* from a catalogue, a DATA header and two glyph records; then cut short   *)
(* or given a wrong magic.                                                 *)

MAGIC == <<70, 73, 76, 69, 0, 0, 0, 4, 80, 70, 70, 50>>    \* b'FILE\x00\x00\x00\x04PFF2'

TagCHIX == <<67, 72, 73, 88>>
TagDATA == <<68, 65, 84, 65>>
TagNAME == <<78, 65, 77, 69>>
TagFAMI == <<70, 65, 77, 73>>
TagWEIG == <<87, 69, 73, 71>>
TagSLAN == <<83, 76, 65, 78>>
TagPTSZ == <<80, 84, 83, 90>>
TagMAXW == <<77, 65, 88, 87>>
TagMAXH == <<77, 65, 88, 72>>
TagASCE == <<65, 83, 67, 69>>
TagDESC == <<68, 69, 83, 67>>

\* a glyph record: width 3, height 3, x 1, y -1, device width 4, 2 bitmap bytes
GlyphA == <<0, 3, 0, 3, 0, 1, 255, 255, 0, 4, 170, 128>>
\* a glyph record: width 2, height 2, x 0, y 0, device width 3, 1 bitmap byte
GlyphQ == <<0, 2, 0, 2, 0, 0, 0, 0, 0, 3, 240>>

DataPayload == GlyphA \o GlyphQ

\* big-endian encoding of 0 <= n < 2^16 in 4 bytes
BE32(n) == <<0, 0, n \div 256, n % 256>>

ChixRecord(cp, off) == BE32(cp) \o <<0>> \o BE32(off)

Catalogue == 1..7

\* the bytes of catalogue section k; glyph offsets are counted from `base`;
\* the index sections have records for 'A' (65) and '?' (63)
SecBytes(k, base) ==
    CASE k = 1 -> TagNAME \o BE32(1) \o <<65>>
      [] k = 2 -> TagPTSZ \o BE32(2) \o <<0, 12>>
      [] k = 3 -> TagPTSZ \o BE32(1) \o <<7>>
      [] k = 4 -> TagCHIX \o BE32(18) \o ChixRecord(65, base)
                                      \o ChixRecord(63, base + Len(GlyphA))
      [] k = 5 -> TagCHIX \o BE32(9) \o ChixRecord(65, base)
      [] k = 6 -> TagCHIX \o BE32(10) \o ChixRecord(65, base) \o <<0>>
      [] k = 7 -> TagCHIX \o BE32(10) \o ChixRecord(65, base)

\* offsets, within section k, of the payload bytes after its last whole record
SecTrail(k) == IF k = 6 THEN {17} ELSE {}

SecLen(k) == Len(SecBytes(k, 0))

Layouts == UNION {[1..n -> Catalogue] : n \in 0..MaxSections}

RECURSIVE LayoutLen(_)
LayoutLen(l) == IF l = <<>> THEN 0 ELSE SecLen(l[1]) + LayoutLen(Tail(l))

RECURSIVE LayoutBytes(_, _)
LayoutBytes(l, base) ==
    IF l = <<>> THEN <<>> ELSE SecBytes(l[1], base) \o LayoutBytes(Tail(l), base)

RECURSIVE LayoutTrail(_, _)
LayoutTrail(l, at) ==
    IF l = <<>> THEN {}
    ELSE {at + t : t \in SecTrail(l[1])} \cup LayoutTrail(Tail(l), at + SecLen(l[1]))

\* where the DATA payload of the file with layout l starts
DataStartOf(l) == Len(MAGIC) + LayoutLen(l) + 8

\* absolute: glyph offsets are counted from the start of the file, else from
\* the start of the DATA payload
WholeFile(l, absolute) ==
    MAGIC \o LayoutBytes(l, IF absolute THEN DataStartOf(l) ELSE 0)
          \o TagDATA \o BE32(Len(DataPayload)) \o DataPayload

\* bytes dropped from the end of the file
Cuts == {0, 1, 3, 25, 32}

BuildFile(l, absolute, cut, badMagic) ==
    LET w == WholeFile(l, absolute)
        c == SubSeq(w, 1, Len(w) - cut)
    IN IF badMagic THEN <<71>> \o Tail(c) ELSE c

----------------------------------------------------------------------------
(* Glyphs and outcomes *)

Character(w, h, x, y, dw, bm) ==
    [width |-> w, height |-> h, x_offset |-> x, y_offset |-> y,
     device_width |-> dw, bitmap_data |-> bm]

NoGlyph == Character(0, 0, 0, 0, 0, <<>>)

\* the outcome of a call: a glyph, or the exception raised; closed tells
\* whether the stream of open(path) was closed when the call was made
Returned(g, closed) == [ok |-> TRUE, err |-> "none", glyph |-> g, closed |-> closed]
Raised(e, closed) == [ok |-> FALSE, err |-> e, glyph |-> NoGlyph, closed |-> closed]
NotCalled == [ok |-> FALSE, err |-> "not called", glyph |-> NoGlyph, closed |-> FALSE]

\* code points looked up: '?', 'A' and 'C' (no file has an entry for 'C')
CodePoints == {63, 65, 67}
\* values of the missing_character argument: '?' and 'B' (no file has an entry for 'B')
MissingCodes == {63, 66}

MetaNames == {"font_name", "family", "weight", "slant", "point_size",
              "max_width", "max_height", "ascent", "descent"}

EmptyDict == [k \in {} |-> 0]

----------------------------------------------------------------------------
(* PF2.get_char *)

\* (width * height + 7) // 8, as a byte count
BitmapLen(w, h) ==
    IF h > 0 /\ w > (8 * W16) \div h THEN W16 ELSE (w * h + 7) \div 8

\* lines 120-129: the five 2-byte reads, the bitmap read, and the cursor they
\* leave; a 2-byte read that comes up short makes uint16be/int16be raise
\* IndexError, a short bitmap read raises nothing
DecodeGlyph(bytes, p, closed) ==
    IF p + 10 > Len(bytes)
    THEN [out |-> Raised("IndexError", closed), pos |-> Max(p, Len(bytes)),
          reads |-> ((Max(Len(bytes) - p, 0)) \div 2) + 1]
    ELSE LET w == uint16be(ReadAt(bytes, p, 2))
             h == uint16be(ReadAt(bytes, p + 2, 2))
             x == int16be(ReadAt(bytes, p + 4, 2))
             y == int16be(ReadAt(bytes, p + 6, 2))
             dw == int16be(ReadAt(bytes, p + 8, 2))
             bm == ReadAt(bytes, p + 10, BitmapLen(w, h))
         IN [out |-> Returned(Character(w, h, x, y, dw, bm), closed),
             pos |-> p + 10 + Len(bm), reads |-> 6]

\* the fallback taken from '?' whatever missing_character was given
InfoOfDefaultMissing(idx, missing, cp) ==
    IF Key(cp) \in DOMAIN idx THEN <<idx[Key(cp)]>>
    ELSE IF Key(63) \in DOMAIN idx THEN <<idx[Key(63)]>>
    ELSE <<>>

\* lines 113-117: the index entry get_char uses for cp, <<>> if it raises
InfoOf(idx, missing, cp) ==
    IF Key(cp) \in DOMAIN idx THEN <<idx[Key(cp)]>>
    ELSE IF Key(missing) \in DOMAIN idx THEN <<idx[Key(missing)]>>
    ELSE <<>>

\* get_char(cp) on a handle with the attributes `at`, the index idx, the data
\* source dio ("file" or "bytesio") holding `bytes` with cursor pos
GetCharOn(at, idx, missing, dio, doff, bytes, pos, closed, cp) ==
    IF "character_index" \notin at
    THEN [out |-> Raised("AttributeError", closed), pos |-> pos, reads |-> 0]
    ELSE LET info == InfoOf(idx, missing, cp) IN
      IF info = <<>>
      THEN [out |-> Raised("KeyError", closed), pos |-> pos, reads |-> 0]
      ELSE IF "data_io" \notin at
      THEN [out |-> Raised("AttributeError", closed), pos |-> pos, reads |-> 0]
      ELSE LET target == AsCount(Wide(info[1].offset.hi, info[1].offset.lo + doff)) IN
        IF closed
        THEN [out |-> Raised("ValueError", closed), pos |-> pos, reads |-> 0]
        ELSE IF target < 0
        THEN [out |-> Raised(IF dio = "file" THEN "OSError" ELSE "ValueError", closed),
              pos |-> pos, reads |-> 0]
        ELSE DecodeGlyph(bytes, target, closed)

FileClosed == fstate = "closed"

get_char(cp) ==
    /\ pc \in {"valid", "invalid"}
    /\ nlookups < MaxLookups
    /\ LET onFile == data_io = "file"
           r == GetCharOn(attrs, character_index, missing_character_code, data_io,
                          data_offset, IF onFile THEN file ELSE buf,
                          IF onFile THEN fpos ELSE bpos, onFile /\ FileClosed, cp)
       IN /\ res' = [res EXCEPT ![cp] = r.out]
          /\ fpos' = IF onFile THEN r.pos ELSE fpos
          /\ bpos' = IF onFile THEN bpos ELSE r.pos
          /\ nreads' = IF onFile THEN nreads + r.reads ELSE nreads
    /\ nlookups' = nlookups + 1
    /\ UNCHANGED <<inputVars, codecVars, pc, is_pf2, fstate, attrs, character_index, meta,
                   data_io, data_offset, buf, err, dataStart, hdrPos, lastChix,
                   closeRes, ncloses>>

----------------------------------------------------------------------------
(* PF2.close *)

close ==
    /\ pc \in {"valid", "invalid"}
    /\ IF read_to_mem
       THEN closeRes' = "ok" /\ fstate' = fstate
       ELSE IF "data_io" \notin attrs
            THEN closeRes' = "AttributeError" /\ fstate' = fstate
            ELSE closeRes' = "ok" /\ fstate' = "closed"
    /\ ncloses' = Min(ncloses + 1, 2)
    /\ UNCHANGED <<inputVars, codecVars, handleVars, pc, fpos, nreads, err, dataStart,
                   hdrPos, lastChix, res, nlookups>>

\* The stream of open(path) is closed without close() only when the file
\* object is finalized, which may happen at any time after the last
\* reference to it is gone, or never: __init__ has returned or raised and
\* self.data_io does not hold it.
Finalize ==
    /\ pc \in {"invalid", "failed"}
    /\ fstate = "open"
    /\ fstate' = "closed"
    /\ UNCHANGED <<inputVars, codecVars, handleVars, pc, fpos, nreads, err, dataStart,
                   hdrPos, lastChix, res, nlookups, closeRes, ncloses>>

----------------------------------------------------------------------------
(* PF2.__init__ *)

\* the magic matched on its first four bytes only
IsMagicPrefixOnly(m) == SubSeq(m, 1, 4) = SubSeq(MAGIC, 1, 4)

\* line 66: file.read(12) == b'FILE\x00\x00\x00\x04PFF2'
IsMagic(m) == m = MAGIC

\* lines 62-68: called on a file and with arguments of the caller's choice;
\* the arguments are stored, the file is opened and its first 12 bytes are
\* compared with the magic
Open ==
    /\ pc = "start"
    /\ \E l \in Layouts, absolute \in BOOLEAN, cut \in Cuts, badMagic \in BOOLEAN :
         /\ badMagic => cut = 0
         /\ file' = BuildFile(l, absolute, cut, badMagic)
         /\ trail' = {t \in LayoutTrail(l, Len(MAGIC)) :
                          t < Len(BuildFile(l, absolute, cut, badMagic))}
    /\ read_to_mem' \in BOOLEAN
    /\ missing_character_code' \in MissingCodes
    /\ fstate' = "open"
    /\ LET m == ReadAt(file', 0, 12)
       IN /\ fpos' = Len(m)
          /\ is_pf2' = IsMagic(m)
          /\ pc' = IF IsMagic(m) THEN "scanning" ELSE "invalid"
    /\ nreads' = nreads + 1
    /\ attrs' = attrs \cup {"missing_character_code", "in_memory", "is_pf2"}
    /\ UNCHANGED <<codecVars, character_index, meta, data_io, data_offset,
                   buf, bpos, err, dataStart, hdrPos, lastChix, res, nlookups,
                   closeRes, ncloses>>

\* lines 74-80: the n passes of the loop over the index records, from
\* cursor p. A record is 4 + 1 + 4 bytes; a read that comes up short makes
\* int32be (or the [0] of line 76) raise IndexError, so the loop makes as
\* many whole passes as whole records are left, and raises in the next one.
WholePasses(p, n) == Min(Max(n, 0), Max(Len(file) - p, 0) \div 9)

\* line 75, in pass i
CodePointAt(p, i) == int32be(ReadAt(file, p + 9 * (i - 1), 4))

\* lines 76-80, in pass i
EntryAt(p, i) ==
    [compression |-> ReadAt(file, p + 9 * (i - 1) + 4, 1)[1],
     offset |-> int32be(ReadAt(file, p + 9 * (i - 1) + 5, 4))]

\* the dictionary after k passes: a later record replaces an earlier one of
\* the same code point
IndexAfter(p, k) ==
    [c \in {CodePointAt(p, i) : i \in 1..k} |->
        EntryAt(p, CHOOSE i \in 1..k :
                      /\ CodePointAt(p, i) = c
                      /\ \A j \in 1..k : CodePointAt(p, j) = c => j <= i)]

ChixLoop(p, n) ==
    LET k == WholePasses(p, n)
        avail == Max(Len(file) - p, 0) - 9 * k
    IN IF k = Max(n, 0)
       THEN [ok |-> TRUE, pos |-> p + 9 * k, idx |-> IndexAfter(p, k), nrec |-> k,
             reads |-> 3 * k]
       ELSE [ok |-> FALSE, pos |-> Max(p, Len(file)), idx |-> IndexAfter(p, k), nrec |-> k,
             reads |-> 3 * k + (IF avail < 4 THEN 1 ELSE IF avail < 5 THEN 2 ELSE 3)]

\* the attribute a metadata tag is stored in, "" for any other tag
AttrOf(name) ==
    CASE name = TagNAME -> "font_name"
      [] name = TagFAMI -> "family"
      [] name = TagWEIG -> "weight"
      [] name = TagSLAN -> "slant"
      [] name = TagPTSZ -> "point_size"
      [] name = TagMAXW -> "max_width"
      [] name = TagMAXH -> "max_height"
      [] name = TagASCE -> "ascent"
      [] name = TagDESC -> "descent"
      [] OTHER -> ""

Raw == {"font_name", "family", "weight", "slant"}

\* a handler around the loop that swallows the exception and returns the handle
FailSwallowed(e) == pc' = "valid" /\ err' = "none"

\* an exception raised inside __init__ leaves it: nothing catches it
Fail(e) == pc' = "failed" /\ err' = e

\* the stream position at DATA taken as the correction
StreamDataOffsetAtData(p) == p

\* line 89: self.data_offset of a handle that keeps the file, p being the
\* cursor after the DATA tag and length
StreamDataOffset(p) == 0

\* lines 69-109: one pass of the `while True` loop
ScanSection ==
    /\ pc = "scanning"
    /\ LET name == ReadAt(file, fpos, 4)
           lenb == ReadAt(file, fpos + Len(name), 4)
           p == fpos + Len(name) + Len(lenb)
       IN
       /\ hdrPos' = hdrPos \cup (fpos .. p - 1)
       /\ IF Len(lenb) < 4
          THEN /\ Fail("IndexError")
               /\ fpos' = p
               /\ nreads' = nreads + 2
               /\ UNCHANGED <<handleVars, fstate, dataStart, lastChix>>
          ELSE LET data_length == int32be(lenb) IN
            IF name = TagCHIX
            THEN LET r == ChixLoop(p, AsCount(data_length) \div 9)
                 IN /\ character_index' = r.idx
                    /\ attrs' = attrs \cup {"character_index"}
                    /\ fpos' = r.pos
                    /\ nreads' = nreads + 2 + r.reads
                    /\ IF r.ok
                       THEN /\ lastChix' = [declared |-> AsCount(data_length),
                                            nrec |-> r.nrec]
                            /\ UNCHANGED <<pc, err>>
                       ELSE Fail("IndexError") /\ UNCHANGED lastChix
                    /\ UNCHANGED <<is_pf2, meta, data_io, data_offset, buf, bpos,
                                   fstate, dataStart>>
            ELSE IF name = TagDATA
            THEN /\ IF read_to_mem
                    THEN /\ data_io' = "bytesio"
                         /\ buf' = ReadAt(file, p, 0 - 1)
                         /\ bpos' = 0
                         /\ fpos' = PosAfter(file, p, 0 - 1)
                         /\ data_offset' = 0 - PosAfter(file, p, 0 - 1)
                         /\ nreads' = nreads + 3
                         /\ fstate' = "closed"
                    ELSE /\ data_io' = "file"
                         /\ data_offset' = StreamDataOffset(p)
                         /\ fpos' = p
                         /\ nreads' = nreads + 2
                         /\ UNCHANGED <<buf, bpos, fstate>>
                 /\ attrs' = attrs \cup {"data_io", "data_offset"}
                 /\ pc' = "valid"
                 /\ dataStart' = p
                 /\ UNCHANGED <<is_pf2, character_index, meta, err, lastChix>>
            ELSE \E oom \in {FALSE, Huge(data_length)} :
                 LET data == IF oom THEN <<>> ELSE ReadAt(file, p, AsCount(data_length))
                     a == AttrOf(name)
                 IN /\ fpos' = p + Len(data)
                    /\ nreads' = nreads + 3
                    /\ IF oom
                       THEN Fail("MemoryError") /\ UNCHANGED <<attrs, meta>>
                       ELSE IF a = ""
                       THEN UNCHANGED <<attrs, meta, pc, err>>
                       ELSE IF a \in Raw
                       THEN /\ meta' = [k \in DOMAIN meta \cup {a} |->
                                           IF k = a THEN data ELSE meta[k]]
                            /\ attrs' = attrs \cup {a}
                            /\ UNCHANGED <<pc, err>>
                       ELSE IF Len(data) < 2
                       THEN Fail("IndexError") /\ UNCHANGED <<attrs, meta>>
                       ELSE /\ meta' = [k \in DOMAIN meta \cup {a} |->
                                           IF k = a THEN uint16be(data) ELSE meta[k]]
                            /\ attrs' = attrs \cup {a}
                            /\ UNCHANGED <<pc, err>>
                    /\ UNCHANGED <<is_pf2, character_index, data_io, data_offset, buf,
                                   bpos, fstate, dataStart, lastChix>>
    /\ UNCHANGED <<inputVars, codecVars, res, nlookups, closeRes, ncloses>>

----------------------------------------------------------------------------
(* The font reader *)

NoCodec == [fn |-> "none", val |-> Wide(0, 0)]

\* Before PF2(path, read_to_mem=..., missing_character=...) is called
Init ==
    /\ file = <<>>
    /\ trail = {}
    /\ read_to_mem = FALSE
    /\ missing_character_code = 63
    /\ pc = "start"
    /\ is_pf2 = FALSE
    /\ fstate = "unopened"
    /\ fpos = 0
    /\ nreads = 0
    /\ attrs = {}
    /\ character_index = EmptyDict
    /\ meta = EmptyDict
    /\ data_io = "none"
    /\ data_offset = 0
    /\ buf = <<>>
    /\ bpos = 0
    /\ err = "none"
    /\ dataStart = 0
    /\ hdrPos = {}
    /\ lastChix = [declared |-> 0, nrec |-> 0]
    /\ res = [cp \in CodePoints |-> NotCalled]
    /\ nlookups = 0
    /\ closeRes = "none"
    /\ ncloses = 0
    /\ codecIn = <<>>
    /\ codecOut = NoCodec

Lookup == \E cp \in CodePoints : get_char(cp)

Next == Open \/ ScanSection \/ Lookup \/ close \/ Finalize

Spec == Init /\ [][Next]_vars

----------------------------------------------------------------------------
(* The byte codec on its own: every function applied to sampled inputs *)

SampleBytes == {0, 1, 127, 128, 255}

CodecInit ==
    /\ codecIn \in [1..4 -> SampleBytes] \cup [1..2 -> SampleBytes]
    /\ codecOut = NoCodec
    /\ file = <<>>
    /\ trail = {}
    /\ read_to_mem = FALSE
    /\ missing_character_code = 63
    /\ pc = "codec"
    /\ is_pf2 = FALSE
    /\ fstate = "unopened"
    /\ fpos = 0
    /\ nreads = 0
    /\ attrs = {}
    /\ character_index = EmptyDict
    /\ meta = EmptyDict
    /\ data_io = "none"
    /\ data_offset = 0
    /\ buf = <<>>
    /\ bpos = 0
    /\ err = "none"
    /\ dataStart = 0
    /\ hdrPos = {}
    /\ lastChix = [declared |-> 0, nrec |-> 0]
    /\ res = [cp \in CodePoints |-> NotCalled]
    /\ nlookups = 0
    /\ closeRes = "none"
    /\ ncloses = 0

nonCodecVars == <<inputVars, handleVars, pc, fstate, fpos, nreads, err, dataStart,
                  hdrPos, lastChix, res, nlookups, closeRes, ncloses>>

\* a 16-bit result as a (hi, lo) pair
FromInt(i) == Wide(0, i)

CallUint32be ==
    /\ Len(codecIn) = 4
    /\ codecOut' = [fn |-> "uint32be", val |-> uint32be(codecIn)]
    /\ UNCHANGED <<codecIn, nonCodecVars>>

CallInt32be ==
    /\ Len(codecIn) = 4
    /\ codecOut' = [fn |-> "int32be", val |-> int32be(codecIn)]
    /\ UNCHANGED <<codecIn, nonCodecVars>>

CallUint16be ==
    /\ Len(codecIn) = 2
    /\ codecOut' = [fn |-> "uint16be", val |-> FromInt(uint16be(codecIn))]
    /\ UNCHANGED <<codecIn, nonCodecVars>>

CallInt16be ==
    /\ Len(codecIn) = 2
    /\ codecOut' = [fn |-> "int16be", val |-> FromInt(int16be(codecIn))]
    /\ UNCHANGED <<codecIn, nonCodecVars>>

CodecNext == CallUint32be \/ CallInt32be \/ CallUint16be \/ CallInt16be

CodecSpec == CodecInit /\ [][CodecNext]_vars

----------------------------------------------------------------------------
(* Reference readings of the file format, used to state the claims *)

Signed16(v) == IF v >= 2 ^ 15 THEN v - W16 ELSE v

CeilDiv8(n) == IF n % 8 = 0 THEN n \div 8 ELSE (n \div 8) + 1

\* a whole 10-byte glyph header starts at byte offset `start`
HasRecord(bytes, start) == start >= 0 /\ start + 10 <= Len(bytes)

\* the glyph record that starts at byte offset `start`, with as much of its
\* bitmap as the bytes hold
RecordAt(bytes, start) ==
    LET w == bytes[start + 1] * 256 + bytes[start + 2]
        h == bytes[start + 3] * 256 + bytes[start + 4]
    IN Character(w, h,
                 Signed16(bytes[start + 5] * 256 + bytes[start + 6]),
                 Signed16(bytes[start + 7] * 256 + bytes[start + 8]),
                 Signed16(bytes[start + 9] * 256 + bytes[start + 10]),
                 SubSeq(bytes, start + 11, Min(Len(bytes), start + 10 + CeilDiv8(w * h))))

Called(cp) == res[cp] # NotCalled

SameOutcome(a, b) == a.ok = b.ok /\ a.err = b.err /\ a.glyph = b.glyph

\* the entry of cp in the index, as an integer
OffsetOf(cp) == AsCount(character_index[Key(cp)].offset)

InIndex(cp) == "character_index" \in attrs /\ Key(cp) \in DOMAIN character_index

\* get_char(cp) on a handle opened on the same file with read_to_mem=False
\* and not closed: the scan sets the same attributes and the same index
StreamingLookup(cp) ==
    GetCharOn(attrs, character_index, missing_character_code, "file",
              StreamDataOffset(dataStart), file, 0, FALSE, cp).out

----------------------------------------------------------------------------
(* C1: on a valid handle opened with read_to_mem=True, get_char(cp) returns *)
(* a glyph exactly when get_char(cp) on a handle opened on the same file    *)
(* with read_to_mem=False does, and the two glyphs have the same six        *)
(* fields.                                                                  *)
C1_BufferedEqualsStreaming ==
    \A cp \in CodePoints :
        (pc = "valid" /\ read_to_mem /\ Called(cp)) =>
            /\ res[cp].ok = StreamingLookup(cp).ok
            /\ res[cp].glyph = StreamingLookup(cp).glyph

(* C2: for a code point absent from the index of a valid handle, get_char   *)
(* has the outcome of get_char(missing_character) when the missing          *)
(* character has an index entry, and raises an error, returning no glyph,   *)
(* when it has none: KeyError, or AttributeError when the file had no index *)
(* section at all.                                                          *)
C2_MissFallsBack ==
    \A cp \in CodePoints :
        (pc = "valid" /\ Called(cp) /\ ~InIndex(cp)) =>
            IF InIndex(missing_character_code)
            THEN (/\ missing_character_code \in CodePoints
                  /\ Called(missing_character_code)
                  /\ res[missing_character_code].closed = res[cp].closed)
                 => SameOutcome(res[cp], res[missing_character_code])
            ELSE /\ ~res[cp].ok
                 /\ res[cp].glyph = NoGlyph
                 /\ res[cp].err = IF "character_index" \in attrs
                                  THEN "KeyError" ELSE "AttributeError"

C2_Witness ==
    /\ pc = "valid"
    /\ missing_character_code = 63
    /\ InIndex(63) /\ ~InIndex(67)
    /\ res[67].ok /\ res[63].ok
    /\ res[67].glyph.bitmap_data # <<>>

(* C3 as claimed: on a handle that keeps the file, get_char(cp) for cp in   *)
(* the index decodes the glyph record that starts index[cp].offset bytes    *)
(* after the first byte of the DATA payload.                                *)
C3_OffsetFromData ==
    \A cp \in CodePoints :
        (pc = "valid" /\ ~read_to_mem /\ Called(cp) /\ ~res[cp].closed
           /\ InIndex(cp)) =>
            IF HasRecord(file, dataStart + OffsetOf(cp))
            THEN res[cp] = Returned(RecordAt(file, dataStart + OffsetOf(cp)), FALSE)
            ELSE ~res[cp].ok

(* C3 amended: on a handle that keeps the file, get_char(cp) for cp in the  *)
(* index decodes the glyph record that starts index[cp].offset bytes after  *)
(* the first byte of the file, whatever sections precede DATA and in        *)
(* whatever order; it raises when no whole header starts there.             *)
C3_OffsetFromFileStart ==
    \A cp \in CodePoints :
        (pc = "valid" /\ ~read_to_mem /\ Called(cp) /\ ~res[cp].closed
           /\ InIndex(cp)) =>
            IF HasRecord(file, OffsetOf(cp))
            THEN res[cp] = Returned(RecordAt(file, OffsetOf(cp)), FALSE)
            ELSE ~res[cp].ok

C3_Witness ==
    /\ pc = "valid" /\ ~read_to_mem
    /\ InIndex(65)
    /\ OffsetOf(65) = dataStart
    /\ Cardinality(hdrPos) > 16
    /\ res[65] = Returned(Character(3, 3, 1, 0 - 1, 4, <<170, 128>>), FALSE)

(* C4: every glyph get_char returns has a bitmap of exactly                 *)
(* ceil(width * height / 8) bytes; get_char raises when the data source     *)
(* ends before the header or the bitmap is complete.                        *)
C4_BitmapExact ==
    \A cp \in CodePoints :
        res[cp].ok =>
            Len(res[cp].glyph.bitmap_data)
                = CeilDiv8(res[cp].glyph.width * res[cp].glyph.height)

(* C5: when the first 12 bytes of the file differ from the magic, __init__  *)
(* returns a handle with is_pf2 false without raising, has made the one     *)
(* 12-byte read and no other, has set no metadata, index or data source,    *)
(* and every get_char on the handle raises and reads nothing.               *)
C5_InvalidHandle ==
    /\ (pc # "start" /\ ReadAt(file, 0, 12) # MAGIC) => pc = "invalid"
    /\ pc = "invalid" =>
        /\ ~is_pf2
        /\ err = "none"
        /\ nreads = 1
        /\ fpos = Min(12, Len(file))
        /\ attrs \cap (MetaNames \cup {"character_index", "data_io", "data_offset"}) = {}
        /\ \A cp \in CodePoints : Called(cp) => (~res[cp].ok /\ res[cp].glyph = NoGlyph)

C5_Witness ==
    /\ pc = "invalid"
    /\ nlookups = MaxLookups
    /\ \E cp \in CodePoints : res[cp].err = "AttributeError"

(* C6: on every handle __init__ returns, close() does not raise, however    *)
(* often it is called.                                                      *)
C6_CloseNeverFails ==
    pc \in {"valid", "invalid"} => closeRes \in {"none", "ok"}

(* C7: the file __init__ opened is closed when __init__ has returned with   *)
(* read_to_mem=True, and is closed once close() has returned.               *)
C7_FileReleased ==
    /\ (pc \in {"valid", "invalid"} /\ read_to_mem) => fstate = "closed"
    /\ closeRes = "ok" => fstate = "closed"

(* C8: a CHIX section of declared length L adds L // 9 records, and the     *)
(* L mod 9 bytes that trail them are never read as a section tag or a       *)
(* section length.                                                          *)
C8_TrailIgnored ==
    /\ lastChix.nrec = lastChix.declared \div 9
    /\ hdrPos \cap trail = {}

(* C9 as claimed: the scan of a file with a correct magic ends with a valid *)
(* handle after a DATA tag, or with a read error raised because the stream  *)
(* ended during a read.                                                     *)
C9_TwoEndings ==
    /\ pc = "valid" => ("data_io" \in attrs /\ ReadAt(file, dataStart - 8, 4) = TagDATA)
    /\ pc = "failed" => (err = "IndexError" /\ fpos >= Len(file))

(* C9 amended: the scan of a file with a correct magic ends: every pass of  *)
(* the loop either ends it or moves the cursor at least 8 bytes forward in  *)
(* a finite file. It ends with a valid handle whose data source is set,     *)
(* after a DATA tag was read, or with an exception raised to the caller and *)
(* no handle: IndexError (a read returned fewer bytes than are decoded: the *)
(* stream ended, or a 16-bit metadata section is shorter than 2 bytes) or   *)
(* MemoryError (a section length of 2^32 or more).                          *)
C9_ScanEnds ==
    [][pc = "scanning" =>
         /\ pc' \in {"scanning", "valid", "failed"}
         /\ pc' = "scanning" => (fpos' >= fpos + 8 /\ fpos' <= Len(file) /\ err' = "none")
         /\ pc' = "valid" =>
              (/\ ReadAt(file, fpos, 4) = TagDATA
               /\ {"data_io", "data_offset"} \subseteq attrs'
               /\ data_io' \in {"file", "bytesio"}
               /\ err' = "none")
         /\ pc' = "failed" =>
              (/\ err' \in {"IndexError", "MemoryError"}
               /\ "data_io" \notin attrs')]_vars

C9_Witness ==
    /\ pc = "failed"
    /\ err = "IndexError"
    /\ fpos < Len(file)

(* C10: uint32be and uint16be give the big-endian value of their bytes,     *)
(* int32be and int16be its two's-complement reading.                        *)
C10_CodecExact ==
    LET b == codecIn IN
    /\ codecOut.fn = "uint32be" =>
         codecOut.val = Wide(b[1] * 256 + b[2], b[3] * 256 + b[4])
    /\ codecOut.fn = "int32be" =>
         codecOut.val = Wide(b[1] * 256 + b[2] - (IF b[1] >= 128 THEN W16 ELSE 0),
                             b[3] * 256 + b[4])
    /\ codecOut.fn = "uint16be" => codecOut.val = FromInt(b[1] * 256 + b[2])
    /\ codecOut.fn = "int16be" => codecOut.val = FromInt(Signed16(b[1] * 256 + b[2]))

====
